---- MODULE Spec2Model ----
(***************************************************************************)
(* The reverse-tunnel engine of kernelshard/expose: the lifecycle          *)
(* coordinator (tunnel.Service) wrapping the relay connection-pool         *)
(* provider (provider.localTunnel), called from concurrent goroutines.     *)
(*                                                                         *)
(* Every caller goroutine issues one call on the shared Service (Start,    *)
(* Close or WaitReady); a call issued after another one has returned is a  *)
(* sequential call.  Each slot of the relay pool is served by its own      *)
(* worker goroutine (handleConnection).  The context handed to Start is     *)
(* the caller's and is not cancelled here: the cancellation scope of the    *)
(* session (lt.ctx) fires through localTunnel.Close only.                   *)
(*                                                                         *)
(* Specifications:                                                         *)
(*   Spec, FairSpec      the Service over the relay provider               *)
(*   ProviderSpec,       the relay provider called directly (Connect once, *)
(*   ProviderFairSpec    Close any number of times), with a larger pool    *)
(*   SlotFairSpec        the directly driven provider with the pool of     *)
(*                       Spec, its workers scheduled fairly                *)
(*   RelaySpec           the directly driven provider, the relay pushing   *)
(*                       requests on the sockets of the pool               *)
(*   CapSpec             Connect storing the assignment, for a range of    *)
(*                       advertised max_conn_count values                  *)
(*   ProxySpec           the local proxy (tunnel.Manager) serving requests *)
(*   ManagerSpec,        Start and Close of the local proxy Manager, and   *)
(*   ManagerFairSpec     the same with its goroutines scheduled fairly     *)
(***************************************************************************)
EXTENDS Integers, Sequences, FiniteSets, TLC

\* ------------------------------------------------------------------ bounds
\* Number of caller goroutines, each issuing one Service call.
NumCallers == 3
\* Largest max_conn_count the relay advertises in the assignment response.
MaxAdvertised == 1
\* Largest max_conn_count the relay advertises to a provider that is driven
\* directly (not through a Service).
MaxPool == 2
\* Number of requests served concurrently by the local proxy handler.
NumRequests == 2
\* Number of goroutines calling Start or Close on the local proxy Manager.
NumManagerCallers == 3
\* The max_conn_count values the effective pool size is computed for:
\* -MaxCapInput .. MaxCapInput.
MaxCapInput == 30

\* ------------------------------------------------------- program constants
clientMaxConn == 10

Callers == 1..NumCallers
\* max_conn_count values of the assignment response
Advertised == 1..MaxAdvertised
PoolAdvertised == 1..MaxPool
\* the requests arriving at the local proxy
Requests == 1..NumRequests
\* the goroutines calling Manager.Start or Manager.Close
ManagerCallers == 1..NumManagerCallers

\* Errors are chains of messages, outermost first; fmt.Errorf("...: %w", err)
\* puts a message in front of the chain it wraps.  nil is the empty chain.
Nil == <<>>
Wrap(msg, err) == <<msg>> \o err
ErrAlreadyStarted == <<"tunnel already started">>
ErrServiceClosed == <<"service is closed">>
ErrDeadlineExceeded == <<"context deadline exceeded">>
\* what lt.httpClient.Do reports when no response arrives
DoErrors == { <<"connection refused">>, <<"context canceled">> }

\* The outcomes of the assignment request: no response (DoErr), or a response
\* with its status code and body; MaxConn is the max_conn_count of a JSON body.
\* adv is the set of max_conn_count values the relay advertises.
Responses(adv) ==
    { [DoErr |-> e, StatusCode |-> 0, Body |-> "", MaxConn |-> 0] : e \in DoErrors }
    \cup { [DoErr |-> Nil, StatusCode |-> c, Body |-> b, MaxConn |-> 0] :
              c \in {500, 502}, b \in {"", "internal server error"} }
    \cup { [DoErr |-> Nil, StatusCode |-> 200, Body |-> "invalid json", MaxConn |-> 0] }
    \cup { [DoErr |-> Nil, StatusCode |-> 200, Body |-> "json", MaxConn |-> m] :
              m \in adv }

\* fmt.Errorf("status %d:%s", resp.StatusCode, string(body))
StatusMessage(code, body) ==
    CASE code = 500 /\ body = "" -> "status 500:"
      [] code = 500 /\ body = "internal server error" -> "status 500:internal server error"
      [] code = 502 /\ body = "" -> "status 502:"
      [] code = 502 /\ body = "internal server error" -> "status 502:internal server error"

\* Mutant: requestTunnel decodes the body whatever the status code is.
requestTunnel_NoStatusCheck(resp) ==
    IF resp.DoErr # Nil THEN resp.DoErr
    ELSE IF resp.Body # "json" THEN Wrap("decode error", <<"invalid character">>)
    ELSE Nil

\* The error requestTunnel returns for an outcome of the request, Nil when it
\* returns the decoded TunnelInfo.
requestTunnel(resp) ==
    IF resp.DoErr # Nil THEN resp.DoErr
    ELSE IF resp.StatusCode # 200 THEN <<StatusMessage(resp.StatusCode, resp.Body)>>
    ELSE IF resp.Body # "json" THEN Wrap("decode error", <<"invalid character">>)
    ELSE Nil

RequestErrors == { requestTunnel(r) : r \in Responses({}) }
ErrDial == <<"dial tcp: connection refused">>
ErrTimeout == Wrap("tunnel readiness timeout", ErrDeadlineExceeded)

VARIABLES
    \* tunnel.Service
    started,        \* s.started
    closed,         \* s.closed
    ready,          \* TRUE iff the channel s.ready has been closed
    panicked,       \* a close of the already closed s.ready panicked
    \* provider.localTunnel
    publicURL,      \* lt.publicURL ("" until assigned)
    localPort,      \* lt.localPort
    tunnelPort,     \* lt.tunnelPort
    connected,      \* lt.connected
    mu,             \* holder of lt.mu's write lock: a caller, or 0 when free
    connections,    \* lt.connections: the sockets of the pool, in order
    maxConnections, \* lt.maxConnections
    ctx,            \* lt.ctx / lt.cancel: "nil", "live" or "cancelled"
    \* the relay sockets ever dialled and the worker goroutine of each
    sockOpen,       \* sockOpen[c]: socket c has not been closed by this side
    worker,         \* worker[c]: [pc, up, down, deadline] of handleConnection(c)
    pushed,         \* pushed[c]: the relay has written a request on socket c
                    \* that this side has not read yet
    \* caller goroutines
    op,             \* op[t]: the call goroutine t issued ("none" before)
    pc,             \* pc[t]: where t is in its call
    ret,            \* ret[t]: the error the call returned (once pc[t] = "done")
    info,           \* info[t]: the outcome of t's assignment request (MaxConn:
                    \* the max_conn_count of the TunnelInfo Connect received)
    i,              \* i[t]: loop index of openConnections
    err,            \* err[t]: the error Connect is about to return
    expired,        \* expired[t]: WaitReady's timeout context is done
    \* history
    before,         \* before[t]: what had happened when t issued its call
    connectCalls,   \* number of calls of provider.Connect
    closeCalls,     \* number of calls of provider.Close
    readyFires,     \* number of executions of close(s.ready)
    \* tunnel.Manager (the local proxy)
    managerLocalPort, \* m.localPort
    handler,        \* handler[h]: the proxyHandler goroutine serving request h
    managerListener,  \* m.listener: 0 (nil) or the Start call that bound it
    managerPublicURL, \* m.publicURL
    managerServer,    \* m.server: 0 (nil) or the Start call that created it
    managerReady,     \* TRUE iff the channel m.ready has been closed
    managerPanicked,  \* a close of the already closed m.ready panicked
    startCtx,       \* the context handed to Manager.Start: "live" or "cancelled"
    listeners,      \* listeners[t]: the net.Listener of Start call t: its
                    \* state ("none", "open", "closed") and what the one
                    \* Close of Serve's onceCloseListener around it returned
    servers,        \* servers[t]: the http.Server of Start call t: inShutdown
                    \* and the listeners it tracks
    mcall,          \* mcall[t]: [op, pc, ret, sawReady, srv] of goroutine t
    watcher         \* watcher[t]: the goroutine of Start call t waiting for
                    \* ctx.Done(): "none", "waiting" or "done"

svcVars == <<started, closed, ready, panicked>>
ltVars == <<publicURL, localPort, tunnelPort, connected, mu, connections,
            maxConnections, ctx>>
poolVars == <<sockOpen, worker, pushed>>
callVars == <<op, pc, ret, info, i, err, expired>>
histVars == <<before, connectCalls, closeCalls, readyFires>>
lifeVars == <<managerListener, managerPublicURL, managerServer, managerReady,
              managerPanicked, startCtx, listeners, servers, mcall, watcher>>
mgrVars == <<managerLocalPort, handler, lifeVars>>
vars == <<svcVars, ltVars, poolVars, callVars, histVars, mgrVars>>

LocalPort == 3000
TunnelPort == 40000
AssignedURL == "https://abc123.localtunnel.me"

\* NewService(NewLocalTunnel(nil))
NewService ==
    /\ started = FALSE
    /\ closed = FALSE
    /\ ready = FALSE
    /\ panicked = FALSE
    /\ publicURL = ""
    /\ localPort = 0
    /\ tunnelPort = 0
    /\ connected = FALSE
    /\ mu = 0
    /\ connections = <<>>
    /\ maxConnections = 0
    /\ ctx = "nil"
    /\ sockOpen = <<>>
    /\ worker = <<>>
    /\ pushed = <<>>
    /\ op = [t \in Callers |-> "none"]
    /\ pc = [t \in Callers |-> "idle"]
    /\ ret = [t \in Callers |-> Nil]
    /\ info = [t \in Callers |->
                [DoErr |-> Nil, StatusCode |-> 0, Body |-> "", MaxConn |-> 0]]
    /\ i = [t \in Callers |-> 0]
    /\ err = [t \in Callers |-> Nil]
    /\ expired = [t \in Callers |-> FALSE]
    /\ before = [t \in Callers |-> {}]
    /\ connectCalls = 0
    /\ closeCalls = 0
    /\ readyFires = 0

\* httptest.NewRecorder(): the response a caller of the local proxy receives.
\* calls counts the WriteHeader calls (status lines), code is the status sent.
NewRecorder == [calls |-> 0, code |-> 0, header |-> {}, body |-> <<>>]

\* The response of the target that http.ReadResponse returned (none yet).
NoResponse == [StatusCode |-> 0, Header |-> {}, Body |-> <<>>]

\* NewManager(port); no request has arrived at the proxy handler yet.
NewManager(port) ==
    /\ managerLocalPort = port
    /\ handler = [h \in Requests |->
                    [pc |-> "idle", w |-> NewRecorder, forwarded |-> "nothing",
                     resp |-> NoResponse, copyErr |-> FALSE]]
    /\ managerListener = 0
    /\ managerPublicURL = ""
    /\ managerServer = 0
    /\ managerReady = FALSE
    /\ managerPanicked = FALSE
    /\ startCtx = "live"
    /\ listeners = [t \in ManagerCallers |-> [state |-> "none", once |-> "unused"]]
    /\ servers = [t \in ManagerCallers |-> [inShutdown |-> FALSE, tracked |-> {}]]
    /\ mcall = [t \in ManagerCallers |->
                  [op |-> "none", pc |-> "idle", ret |-> Nil, sawReady |-> FALSE,
                   srv |-> 0]]
    /\ watcher = [t \in ManagerCallers |-> "none"]

Init == NewService /\ NewManager(LocalPort)

Returned == { t \in Callers : pc[t] = "done" }

ErrConnect == "failed to connect LocalTunnel provider tunnel"
ConnectFailed(e) == Len(e) > 0 /\ e[1] = ErrConnect

\* What has happened so far, as far as a later call is concerned: a Close has
\* returned, a Start has returned a Connect failure, the service is started.
Happened ==
    { "Close" : t \in { u \in Returned : op[u] = "Close" } }
    \cup { "StartFailed" : t \in { u \in Returned : op[u] = "Start" /\ ConnectFailed(ret[u]) } }
    \cup { "Started" : t \in { u \in Callers : started } }

\* Goroutine t issues call o; the step that issues it is the call's first
\* step.  Goroutines are interchangeable, so they are numbered in the order
\* in which they issue their calls.
Issue(t, o) ==
    /\ pc[t] = "idle"
    /\ \A u \in Callers : u < t => pc[u] # "idle"
    /\ op' = [op EXCEPT ![t] = o]
    /\ before' = [before EXCEPT ![t] = Happened]

Return(t, e) ==
    /\ pc' = [pc EXCEPT ![t] = "done"]
    /\ ret' = [ret EXCEPT ![t] = e]

Goto(t, label) ==
    /\ pc' = [pc EXCEPT ![t] = label]
    /\ ret' = ret


\* ------------------------------------------------------------ tunnel.Service

\* Mutant: the guard does not look at s.started.
StartRejection_NoStartedCheck ==
    IF closed THEN ErrServiceClosed ELSE Nil

\* Mutant: the guard does not look at s.closed.
StartRejection_NoClosedCheck ==
    IF started THEN ErrAlreadyStarted ELSE Nil

\* The guard of Service.Start, evaluated under s.mu: the error a call is
\* rejected with, Nil when it may proceed.
StartRejection ==
    IF started THEN ErrAlreadyStarted
    ELSE IF closed THEN ErrServiceClosed
    ELSE Nil

\* Mutant: s.started is set before s.closed is looked at.
Start_Lock_MarkFirst(t) ==
    /\ ~panicked
    /\ Issue(t, "Start")
    /\ IF started
       THEN /\ Return(t, ErrAlreadyStarted)
            /\ UNCHANGED <<started, connectCalls>>
       ELSE /\ started' = TRUE
            /\ IF closed
               THEN /\ Return(t, ErrServiceClosed)
                    /\ UNCHANGED connectCalls
               ELSE /\ connectCalls' = connectCalls + 1
                    /\ Goto(t, "connect")
    /\ UNCHANGED <<closed, ready, panicked, ltVars, poolVars, info, i, err,
                   expired, closeCalls, readyFires>>
    /\ UNCHANGED mgrVars

\* Mutant: an accepted Start does not set s.started.
Start_Lock_NoMark(t) ==
    /\ ~panicked
    /\ Issue(t, "Start")
    /\ IF StartRejection # Nil
       THEN /\ Return(t, StartRejection)
            /\ UNCHANGED <<started, connectCalls>>
       ELSE /\ started' = started
            /\ connectCalls' = connectCalls + 1
            /\ Goto(t, "connect")
    /\ UNCHANGED <<closed, ready, panicked, ltVars, poolVars, info, i, err,
                   expired, closeCalls, readyFires>>
    /\ UNCHANGED mgrVars

\* Service.Start, from s.mu.Lock() to the s.mu.Unlock() of the branch taken;
\* the accepted call goes on to s.provider.Connect.
Start_Lock(t) ==
    /\ ~panicked
    /\ Issue(t, "Start")
    /\ IF StartRejection # Nil
       THEN /\ Return(t, StartRejection)
            /\ UNCHANGED <<started, connectCalls>>
       ELSE /\ started' = TRUE
            /\ connectCalls' = connectCalls + 1
            /\ Goto(t, "connect")
    /\ UNCHANGED <<closed, ready, panicked, ltVars, poolVars, info, i, err,
                   expired, closeCalls, readyFires>>
    /\ UNCHANGED mgrVars

\* close(s.ready): closing a closed channel panics.
Start_Fire(t) ==
    IF ready
    THEN /\ panicked' = TRUE
         /\ Goto(t, "panic")
         /\ UNCHANGED <<ready, readyFires>>
    ELSE /\ ready' = TRUE
         /\ readyFires' = readyFires + 1
         /\ Return(t, Nil)
         /\ UNCHANGED panicked

\* Mutant: close(s.ready) runs before the error of Connect is looked at.
Start_Finish_FireFirst(t) ==
    /\ ~panicked
    /\ pc[t] = "connected"
    /\ IF ready
       THEN /\ panicked' = TRUE
            /\ Goto(t, "panic")
            /\ UNCHANGED <<ready, readyFires>>
       ELSE /\ ready' = TRUE
            /\ readyFires' = readyFires + 1
            /\ Return(t, IF err[t] # Nil THEN Wrap(ErrConnect, err[t]) ELSE Nil)
            /\ UNCHANGED panicked
    /\ UNCHANGED <<started, closed, ltVars, poolVars, op, info, i, err, expired,
                   before, connectCalls, closeCalls>>
    /\ UNCHANGED mgrVars

\* Mutant: a failed Connect clears s.started so that Start can be retried.
Start_Finish_ResetStarted(t) ==
    /\ ~panicked
    /\ pc[t] = "connected"
    /\ IF err[t] # Nil
       THEN /\ Return(t, Wrap(ErrConnect, err[t]))
            /\ started' = FALSE
            /\ UNCHANGED <<ready, panicked, readyFires>>
       ELSE /\ Start_Fire(t)
            /\ UNCHANGED started
    /\ UNCHANGED <<closed, ltVars, poolVars, op, info, i, err, expired,
                   before, connectCalls, closeCalls>>
    /\ UNCHANGED mgrVars

\* Service.Start after s.provider.Connect has returned err[t].
Start_Finish(t) ==
    /\ ~panicked
    /\ pc[t] = "connected"
    /\ IF err[t] # Nil
       THEN /\ Return(t, Wrap(ErrConnect, err[t]))
            /\ UNCHANGED <<ready, panicked, readyFires>>
       ELSE Start_Fire(t)
    /\ UNCHANGED <<started, closed, ltVars, poolVars, op, info, i, err, expired,
                   before, connectCalls, closeCalls>>
    /\ UNCHANGED mgrVars

\* Mutant: Close does not look at s.closed.
Close_Lock_NoGuard(t) ==
    /\ ~panicked
    /\ Issue(t, "Close")
    /\ closed' = TRUE
    /\ closeCalls' = closeCalls + 1
    /\ Goto(t, "provider_close")
    /\ UNCHANGED <<started, ready, panicked, ltVars, poolVars, info, i, err,
                   expired, connectCalls, readyFires>>
    /\ UNCHANGED mgrVars

\* Mutant: the first Close clears s.started.
Close_Lock_ClearsStarted(t) ==
    /\ ~panicked
    /\ Issue(t, "Close")
    /\ IF closed
       THEN /\ Return(t, Nil)
            /\ UNCHANGED <<started, closed, closeCalls>>
       ELSE /\ closed' = TRUE
            /\ started' = FALSE
            /\ closeCalls' = closeCalls + 1
            /\ Goto(t, "provider_close")
    /\ UNCHANGED <<ready, panicked, ltVars, poolVars, info, i, err,
                   expired, connectCalls, readyFires>>
    /\ UNCHANGED mgrVars

\* Service.Close, from s.mu.Lock() to the s.mu.Unlock() of the branch taken;
\* the first call goes on to s.provider.Close.
Close_Lock(t) ==
    /\ ~panicked
    /\ Issue(t, "Close")
    /\ IF closed
       THEN /\ Return(t, Nil)
            /\ UNCHANGED <<closed, closeCalls>>
       ELSE /\ closed' = TRUE
            /\ closeCalls' = closeCalls + 1
            /\ Goto(t, "provider_close")
    /\ UNCHANGED <<started, ready, panicked, ltVars, poolVars, info, i, err,
                   expired, connectCalls, readyFires>>
    /\ UNCHANGED mgrVars

\* Mutant: WaitReady does not ask the provider and always enters the select.
Wait_Check_NoFastPath(t) ==
    /\ ~panicked
    /\ Issue(t, "WaitReady")
    /\ Goto(t, "select")
    /\ UNCHANGED <<svcVars, ltVars, poolVars, info, i, err, expired,
                   connectCalls, closeCalls, readyFires>>
    /\ UNCHANGED mgrVars

\* Service.WaitReady: s.provider.IsConnected() (under lt.mu.RLock), then the
\* timeout context is created and the select is entered.
Wait_Check(t) ==
    /\ ~panicked
    /\ Issue(t, "WaitReady")
    /\ mu = 0
    /\ IF connected THEN Return(t, Nil) ELSE Goto(t, "select")
    /\ UNCHANGED <<svcVars, ltVars, poolVars, info, i, err, expired,
                   connectCalls, closeCalls, readyFires>>
    /\ UNCHANGED mgrVars

\* The timeout of WaitReady's context elapses.
Wait_Timeout(t) ==
    /\ ~panicked
    /\ pc[t] = "select"
    /\ ~expired[t]
    /\ expired' = [expired EXCEPT ![t] = TRUE]
    /\ UNCHANGED <<svcVars, ltVars, poolVars, op, pc, ret, info, i, err, histVars>>
    /\ UNCHANGED mgrVars

\* The select of WaitReady takes one of its ready cases.
Wait_Select(t) ==
    /\ ~panicked
    /\ pc[t] = "select"
    /\ \/ ready /\ Return(t, Nil)
       \/ expired[t] /\ Return(t, ErrTimeout)
    /\ UNCHANGED <<svcVars, ltVars, poolVars, op, info, i, err, expired, histVars>>
    /\ UNCHANGED mgrVars

\* ------------------------------------------------------ provider.localTunnel

Min(a, b) == IF a < b THEN a ELSE b

\* Mutant: the advertised max_conn_count is taken without the local ceiling.
EffectiveMax_Uncapped(advertised) ==
    IF advertised > 0 THEN advertised ELSE clientMaxConn

\* Mutant: an advertised max_conn_count that is not positive is taken as it is.
EffectiveMax_NoDefault(advertised) == Min(advertised, clientMaxConn)

\* The effective pool size Connect derives from the advertised max_conn_count.
EffectiveMax(advertised) ==
    IF advertised > 0 THEN Min(advertised, clientMaxConn) ELSE clientMaxConn

Range(s) == { s[k] : k \in DOMAIN s }

\* Mutant: closeAllConnections empties the pool without closing its sockets.
ClosedAll_KeepsOpen(open, conns) == open

\* closeAllConnections: the sockets after conn.Close() on every pool entry.
ClosedAll(open, conns) ==
    [c \in DOMAIN open |-> IF c \in Range(conns) THEN FALSE ELSE open[c]]

\* localTunnel.Connect, first critical section: localPort and the
\* cancellation scope derived from the caller's context.
Connect_Init(t) ==
    /\ ~panicked
    /\ pc[t] = "connect"
    /\ mu = 0
    /\ localPort' = LocalPort
    /\ ctx' = "live"
    /\ Goto(t, "request")
    /\ UNCHANGED <<svcVars, publicURL, tunnelPort, connected, mu, connections,
                   maxConnections, poolVars, op, info, i, err, expired, histVars>>
    /\ UNCHANGED mgrVars

\* Connect, step 1: requestTunnel returns the TunnelInfo of the response, or
\* an error with which Connect returns.  adv: what the relay may advertise.
Connect_Request(t, adv) ==
    /\ ~panicked
    /\ pc[t] = "request"
    /\ \E resp \in Responses(adv) :
          /\ info' = [info EXCEPT ![t] = resp]
          /\ IF requestTunnel(resp) # Nil
             THEN /\ err' = [err EXCEPT ![t] =
                        Wrap("failed to request tunnel", requestTunnel(resp))]
                  /\ Goto(t, "connected")
             ELSE /\ err' = err
                  /\ Goto(t, "assign")
    /\ UNCHANGED <<svcVars, ltVars, poolVars, op, i, expired, histVars>>
    /\ UNCHANGED mgrVars

\* localTunnel.Connect, second critical section: the assignment is stored.
Connect_Assign(t) ==
    /\ ~panicked
    /\ pc[t] = "assign"
    /\ mu = 0
    /\ publicURL' = AssignedURL
    /\ tunnelPort' = TunnelPort
    /\ maxConnections' = EffectiveMax(info[t].MaxConn)
    /\ Goto(t, "open")
    /\ UNCHANGED <<svcVars, localPort, connected, mu, connections, ctx, poolVars,
                   op, info, i, err, expired, histVars>>
    /\ UNCHANGED mgrVars

\* fmt.Errorf("connection %d failed: %w", i, err), without the wrapped error.
MsgConnectionFailed(k) ==
    <<"connection 0 failed", "connection 1 failed", "connection 2 failed",
      "connection 3 failed", "connection 4 failed", "connection 5 failed",
      "connection 6 failed", "connection 7 failed", "connection 8 failed",
      "connection 9 failed">>[k + 1]

\* openConnections: lt.mu.Lock(), held until the function returns.
Open_Lock(t) ==
    /\ ~panicked
    /\ pc[t] = "open"
    /\ mu = 0
    /\ mu' = t
    /\ i' = [i EXCEPT ![t] = 0]
    /\ Goto(t, "dial")
    /\ UNCHANGED <<svcVars, publicURL, localPort, tunnelPort, connected,
                   connections, maxConnections, ctx, poolVars, op, info, err,
                   expired, histVars>>
    /\ UNCHANGED mgrVars

\* openConnections, one iteration: dialTunnel succeeds (the socket joins the
\* pool and its worker is started) or fails (the pool is closed, the lock
\* released and the error returned through Connect).
Open_Dial(t) ==
    /\ ~panicked
    /\ pc[t] = "dial"
    /\ i[t] < maxConnections
    /\ \/ /\ sockOpen' = Append(sockOpen, TRUE)
          /\ connections' = Append(connections, Len(sockOpen) + 1)
          /\ worker' = Append(worker, [pc |-> "check", up |-> FALSE, down |-> FALSE,
                                        deadline |-> FALSE])
          /\ pushed' = Append(pushed, FALSE)
          /\ i' = [i EXCEPT ![t] = i[t] + 1]
          /\ UNCHANGED <<mu, err, pc, ret>>
       \/ /\ sockOpen' = ClosedAll(sockOpen, connections)
          /\ connections' = <<>>
          /\ mu' = 0
          /\ err' = [err EXCEPT ![t] =
                Wrap("failed to open connections",
                     Wrap(MsgConnectionFailed(i[t]), ErrDial))]
          /\ Goto(t, "connected")
          /\ UNCHANGED <<worker, pushed, i>>
    /\ UNCHANGED <<svcVars, publicURL, localPort, tunnelPort, connected,
                   maxConnections, ctx, op, info, expired, histVars>>
    /\ UNCHANGED mgrVars

\* openConnections: the loop is over, the deferred Unlock runs.
Open_Done(t) ==
    /\ ~panicked
    /\ pc[t] = "dial"
    /\ ~(i[t] < maxConnections)
    /\ mu' = 0
    /\ Goto(t, "mark")
    /\ UNCHANGED <<svcVars, publicURL, localPort, tunnelPort, connected,
                   connections, maxConnections, ctx, poolVars, op, info, i, err,
                   expired, histVars>>
    /\ UNCHANGED mgrVars

\* Mutant: Connect returns success without setting lt.connected.
Connect_Mark_NoMark(t) ==
    /\ ~panicked
    /\ pc[t] = "mark"
    /\ mu = 0
    /\ err' = [err EXCEPT ![t] = Nil]
    /\ Goto(t, "connected")
    /\ UNCHANGED <<svcVars, publicURL, localPort, tunnelPort, connected, mu,
                   connections, maxConnections, ctx, poolVars, op, info, i,
                   expired, histVars>>
    /\ UNCHANGED mgrVars

\* localTunnel.Connect, last critical section, and its successful return.
Connect_Mark(t) ==
    /\ ~panicked
    /\ pc[t] = "mark"
    /\ mu = 0
    /\ connected' = TRUE
    /\ err' = [err EXCEPT ![t] = Nil]
    /\ Goto(t, "connected")
    /\ UNCHANGED <<svcVars, publicURL, localPort, tunnelPort, mu, connections,
                   maxConnections, ctx, poolVars, op, info, i, expired, histVars>>
    /\ UNCHANGED mgrVars

\* Mutant: Close does not take lt.mu.
Provider_Close_NoLock(t) ==
    /\ ~panicked
    /\ pc[t] = "provider_close"
    /\ ctx' = IF ctx # "nil" THEN "cancelled" ELSE ctx
    /\ sockOpen' = ClosedAll(sockOpen, connections)
    /\ connections' = <<>>
    /\ connected' = FALSE
    /\ Return(t, Nil)
    /\ UNCHANGED <<svcVars, publicURL, localPort, tunnelPort, mu, maxConnections,
                   worker, pushed, op, info, i, err, expired, histVars>>
    /\ UNCHANGED mgrVars

\* Mutant: Close closes the sockets of the pool but keeps them in lt.connections.
Provider_Close_KeepsPool(t) ==
    /\ ~panicked
    /\ pc[t] = "provider_close"
    /\ mu = 0
    /\ ctx' = IF ctx # "nil" THEN "cancelled" ELSE ctx
    /\ sockOpen' = ClosedAll(sockOpen, connections)
    /\ connected' = FALSE
    /\ Return(t, Nil)
    /\ UNCHANGED <<svcVars, publicURL, localPort, tunnelPort, mu, connections,
                   maxConnections, worker, pushed, op, info, i, err, expired,
                   histVars>>
    /\ UNCHANGED mgrVars

\* localTunnel.Close, one critical section.
Provider_Close(t) ==
    /\ ~panicked
    /\ pc[t] = "provider_close"
    /\ mu = 0
    /\ ctx' = IF ctx # "nil" THEN "cancelled" ELSE ctx
    /\ sockOpen' = ClosedAll(sockOpen, connections)
    /\ connections' = <<>>
    /\ connected' = FALSE
    /\ Return(t, Nil)
    /\ UNCHANGED <<svcVars, publicURL, localPort, tunnelPort, mu, maxConnections,
                   worker, pushed, op, info, i, err, expired, histVars>>
    /\ UNCHANGED mgrVars

\* The provider driven directly, as its tests drive it: a goroutine calls
\* lt.Connect (once per session, as the Service guarantees) or lt.Close.
Direct_Connect(t) ==
    /\ ~panicked
    /\ Issue(t, "lt.Connect")
    /\ connectCalls = 0
    /\ connectCalls' = connectCalls + 1
    /\ Goto(t, "connect")
    /\ UNCHANGED <<svcVars, ltVars, poolVars, info, i, err, expired, closeCalls,
                   readyFires, mgrVars>>

\* lt.Connect returns its error to the goroutine that called it.
Direct_Return(t) ==
    /\ ~panicked
    /\ pc[t] = "connected"
    /\ Return(t, err[t])
    /\ UNCHANGED <<svcVars, ltVars, poolVars, op, info, i, err, expired, histVars,
                   mgrVars>>

Direct_Close(t) ==
    /\ ~panicked
    /\ Issue(t, "lt.Close")
    /\ closeCalls' = closeCalls + 1
    /\ Goto(t, "provider_close")
    /\ UNCHANGED <<svcVars, ltVars, poolVars, info, i, err, expired, connectCalls,
                   readyFires, mgrVars>>

\* --------------------------------------------------------- the slot workers

Slots == DOMAIN worker

SetWorker(c, w) ==
    /\ worker' = [worker EXCEPT ![c] = w]

\* Mutant: an exiting worker closes every socket of the pool.
Worker_Exit_ClosesPool(c) ==
    /\ SetWorker(c, [pc |-> "exited", up |-> FALSE, down |-> FALSE, deadline |-> FALSE])
    /\ sockOpen' = [d \in DOMAIN sockOpen |-> FALSE]

\* The deferred tunnelConn.Close() of handleConnection.
Worker_Exit(c) ==
    /\ SetWorker(c, [pc |-> "exited", up |-> FALSE, down |-> FALSE, deadline |-> FALSE])
    /\ sockOpen' = [sockOpen EXCEPT ![c] = FALSE]

\* Mutant: the loop does not look at lt.ctx.
Worker_Check_IgnoresScope(c) ==
    /\ ~panicked
    /\ worker[c].pc = "check"
    /\ SetWorker(c, [worker[c] EXCEPT !.pc = "local"])
    /\ UNCHANGED <<svcVars, ltVars, sockOpen, pushed, callVars, histVars>>
    /\ UNCHANGED mgrVars

\* handleConnection, top of the loop: the select on lt.ctx.Done().
Worker_Check(c) ==
    /\ ~panicked
    /\ worker[c].pc = "check"
    /\ IF ctx = "cancelled"
       THEN Worker_Exit(c)
       ELSE /\ SetWorker(c, [worker[c] EXCEPT !.pc = "local"])
            /\ UNCHANGED sockOpen
    /\ UNCHANGED <<svcVars, ltVars, pushed, callVars, histVars>>
    /\ UNCHANGED mgrVars

\* The relay writes a request on an open socket of the pool.
Relay_Push(c) ==
    /\ ~panicked
    /\ sockOpen[c]
    /\ ~pushed[c]
    /\ pushed' = [pushed EXCEPT ![c] = TRUE]
    /\ UNCHANGED <<svcVars, ltVars, sockOpen, worker, callVars, histVars, mgrVars>>

\* Mutant: the copies start on sockets without a deadline.
Worker_Dial_NoDeadline(c) ==
    /\ ~panicked
    /\ worker[c].pc = "local"
    /\ \/ Worker_Exit(c)
       \/ /\ SetWorker(c, [pc |-> "copy", up |-> FALSE, down |-> FALSE,
                            deadline |-> FALSE])
          /\ UNCHANGED sockOpen
    /\ UNCHANGED <<svcVars, ltVars, pushed, callVars, histVars>>
    /\ UNCHANGED mgrVars

\* proxyRequest: the dial of the local target fails (the worker returns) or
\* succeeds (both sockets get their deadline and the two copies start).
Worker_Dial(c) ==
    /\ ~panicked
    /\ worker[c].pc = "local"
    /\ \/ Worker_Exit(c)
       \/ /\ SetWorker(c, [pc |-> "copy", up |-> FALSE, down |-> FALSE, deadline |-> TRUE])
          /\ UNCHANGED sockOpen
    /\ UNCHANGED <<svcVars, ltVars, pushed, callVars, histVars>>
    /\ UNCHANGED mgrVars

\* io.Copy(localConn, tunnelConn) ends: end-of-stream, error or deadline.
\* What the relay had pushed on the socket has been read.
Copy_Up(c) ==
    /\ ~panicked
    /\ worker[c].pc = "copy"
    /\ ~worker[c].up
    /\ SetWorker(c, [worker[c] EXCEPT !.up = TRUE])
    /\ pushed' = [pushed EXCEPT ![c] = FALSE]
    /\ UNCHANGED <<svcVars, ltVars, sockOpen, callVars, histVars>>
    /\ UNCHANGED mgrVars

\* io.Copy(tunnelConn, localConn) ends: end-of-stream, error or deadline.
Copy_Down(c) ==
    /\ ~panicked
    /\ worker[c].pc = "copy"
    /\ ~worker[c].down
    /\ SetWorker(c, [worker[c] EXCEPT !.down = TRUE])
    /\ UNCHANGED <<svcVars, ltVars, sockOpen, pushed, callVars, histVars>>
    /\ UNCHANGED mgrVars

\* proxyRequest: wg.Wait() returns, localConn is closed, nil is returned and
\* handleConnection loops.
Proxy_Return(c) ==
    /\ ~panicked
    /\ worker[c].pc = "copy"
    /\ worker[c].up /\ worker[c].down
    /\ SetWorker(c, [pc |-> "check", up |-> FALSE, down |-> FALSE, deadline |-> FALSE])
    /\ UNCHANGED <<svcVars, ltVars, sockOpen, pushed, callVars, histVars>>
    /\ UNCHANGED mgrVars

\* ------------------------------------------- tunnel.Manager: the proxy handler

\* The target ports a Manager is constructed with.
Ports == {3000, 65000}

\* fmt's %d of a port.
Itoa(n) == CASE n = 3000 -> "3000" [] n = 65000 -> "65000"

MsgDialFailed(port) ==
    <<"Failed to connect localhost:", Itoa(port), " - is your server running?">>
MsgForwardFailed == <<"Failed to forward request">>
MsgReadFailed(e) == <<"Failed to read response from local server: ">> \o e
ErrUnexpectedEOF == <<"unexpected EOF">>

\* What the target answers with.
TargetResponses ==
    { [StatusCode |-> 200, Header |-> {<<"X-Test-Header", "test-value">>},
       Body |-> <<"Hello from local server">>],
      [StatusCode |-> 404, Header |-> {}, Body |-> <<>>] }

\* ResponseWriter.WriteHeader: the first call sends the status line, a later
\* one is superfluous and sends nothing.
WriteHeader(w, code) ==
    [w EXCEPT !.calls = w.calls + 1,
              !.code = IF w.calls = 0 THEN code ELSE w.code]

\* ResponseWriter.Write: sends the status line 200 first if none was sent.
Write(w, data) ==
    LET sent == IF w.calls = 0 THEN WriteHeader(w, 200) ELSE w
    IN  [sent EXCEPT !.body = sent.body \o data]

\* http.Error(w, error, code)
HttpError(w, error, code) ==
    LET h == [w EXCEPT !.header =
                { kv \in w.header : kv[1] # "Content-Length" }
                \cup { <<"Content-Type", "text/plain; charset=utf-8">>,
                       <<"X-Content-Type-Options", "nosniff">> }]
    IN  Write(WriteHeader(h, code), error \o <<"\n">>)

SetHandler(h, r) ==
    /\ handler' = [handler EXCEPT ![h] = r]
    /\ UNCHANGED <<svcVars, ltVars, poolVars, callVars, histVars, managerLocalPort,
                   lifeVars>>

\* Mutant: the dial failure is answered without a status line or a body.
Handler_Dial_SilentFailure(h) ==
    /\ handler[h].pc = "idle"
    /\ \/ SetHandler(h, [handler[h] EXCEPT !.pc = "done"])
       \/ SetHandler(h, [handler[h] EXCEPT !.pc = "write"])

\* proxyHandler: net.DialTimeout to localhost:m.localPort fails (502 and
\* return) or succeeds.
Handler_Dial(h) ==
    /\ handler[h].pc = "idle"
    /\ \/ SetHandler(h, [handler[h] EXCEPT
              !.w = HttpError(@, MsgDialFailed(managerLocalPort), 502),
              !.pc = "done"])
       \/ SetHandler(h, [handler[h] EXCEPT !.pc = "write"])

\* proxyHandler: r.Write(conn) fails, having sent nothing or a part of the
\* request (502 and return), or the request is forwarded.
Handler_Write(h) ==
    /\ handler[h].pc = "write"
    /\ \/ \E sent \in {"nothing", "partial"} :
            SetHandler(h, [handler[h] EXCEPT
                !.forwarded = sent,
                !.w = HttpError(@, MsgForwardFailed, 502),
                !.pc = "done"])
       \/ SetHandler(h, [handler[h] EXCEPT !.forwarded = "request", !.pc = "read"])

\* proxyHandler: http.ReadResponse fails (502 and return) or returns the
\* response of the target.
Handler_Read(h) ==
    /\ handler[h].pc = "read"
    /\ \/ SetHandler(h, [handler[h] EXCEPT
              !.w = HttpError(@, MsgReadFailed(ErrUnexpectedEOF), 502),
              !.pc = "done"])
       \/ \E r \in TargetResponses :
            SetHandler(h, [handler[h] EXCEPT !.resp = r, !.pc = "respond"])

\* Mutant: the handler answers 200 whatever the status of the target is.
Handler_Respond_AlwaysOK(h) ==
    /\ handler[h].pc = "respond"
    /\ SetHandler(h, [handler[h] EXCEPT
          !.w = WriteHeader([@ EXCEPT !.header = @ \cup handler[h].resp.Header], 200),
          !.pc = "copy"])

\* proxyHandler: the header fields of the response are copied and its status
\* code is written.
Handler_Respond(h) ==
    /\ handler[h].pc = "respond"
    /\ SetHandler(h, [handler[h] EXCEPT
          !.w = WriteHeader([@ EXCEPT !.header = @ \cup handler[h].resp.Header],
                            handler[h].resp.StatusCode),
          !.pc = "copy"])

\* Mutant: a failed copy of the body is reported with a 502 error response.
Handler_Copy_ReportsFailure(h) ==
    /\ handler[h].pc = "copy"
    /\ \E n \in 0..Len(handler[h].resp.Body) :
          LET sent == IF n = 0 THEN handler[h].w
                      ELSE Write(handler[h].w, SubSeq(handler[h].resp.Body, 1, n))
          IN  SetHandler(h, [handler[h] EXCEPT
                  !.w = IF n < Len(handler[h].resp.Body)
                        THEN HttpError(sent, <<"Failed to copy response">>, 502)
                        ELSE sent,
                  !.copyErr = n < Len(handler[h].resp.Body),
                  !.pc = "done"])

\* proxyHandler: io.Copy(w, resp.Body) copies the body, or a part of it when
\* it fails (copyErr); the error is dropped.
Handler_Copy(h) ==
    /\ handler[h].pc = "copy"
    /\ \E n \in 0..Len(handler[h].resp.Body) :
          SetHandler(h, [handler[h] EXCEPT
              !.w = IF n = 0 THEN @ ELSE Write(@, SubSeq(handler[h].resp.Body, 1, n)),
              !.copyErr = n < Len(handler[h].resp.Body),
              !.pc = "done"])

\* ------------------------------------------- tunnel.Manager: Start and Close

ErrCanceled == <<"context canceled">>
ErrListen == <<"listen tcp :0: socket: too many open files">>
ErrNetClosed == <<"use of closed network connection">>

\* fmt.Sprintf("http://localhost:%d", port) for the port the system assigned to
\* the listener of Start call t.
ListenerURL(t) ==
    <<"http://localhost:49152", "http://localhost:49153", "http://localhost:49154",
      "http://localhost:49155", "http://localhost:49156">>[t]

\* Goroutine t issues its call; the goroutines are numbered in the order in
\* which they issue their calls.
ManagerIssue(t) ==
    /\ ~managerPanicked
    /\ mcall[t].pc = "idle"
    /\ \A u \in ManagerCallers : u < t => mcall[u].pc # "idle"

ManagerFrame ==
    UNCHANGED <<svcVars, ltVars, poolVars, callVars, histVars, managerLocalPort,
                handler>>

\* Mutant: Start does not look at its context before it binds the listener.
Manager_Listen_IgnoresContext(t) ==
    /\ ManagerIssue(t)
    /\ \/ /\ mcall' = [mcall EXCEPT ![t] =
               [@ EXCEPT !.op = "Start", !.pc = "done",
                         !.ret = Wrap("failed to create listener", ErrListen)]]
          /\ UNCHANGED listeners
       \/ /\ mcall' = [mcall EXCEPT ![t] =
               [@ EXCEPT !.op = "Start", !.pc = "store_listener"]]
          /\ listeners' = [listeners EXCEPT ![t].state = "open"]
    /\ UNCHANGED <<managerListener, managerPublicURL, managerServer, managerReady,
                   managerPanicked, startCtx, servers, watcher>>
    /\ ManagerFrame

\* Manager.Start up to net.Listen: a cancelled context ends the call, and so
\* does a failure to bind the listener.
Manager_Listen(t) ==
    /\ ManagerIssue(t)
    /\ IF startCtx = "cancelled"
       THEN /\ mcall' = [mcall EXCEPT ![t] =
                    [@ EXCEPT !.op = "Start", !.pc = "done", !.ret = ErrCanceled]]
            /\ UNCHANGED listeners
       ELSE \/ /\ mcall' = [mcall EXCEPT ![t] =
                    [@ EXCEPT !.op = "Start", !.pc = "done",
                              !.ret = Wrap("failed to create listener", ErrListen)]]
               /\ UNCHANGED listeners
            \/ /\ mcall' = [mcall EXCEPT ![t] =
                    [@ EXCEPT !.op = "Start", !.pc = "store_listener"]]
               /\ listeners' = [listeners EXCEPT ![t].state = "open"]
    /\ UNCHANGED <<managerListener, managerPublicURL, managerServer, managerReady,
                   managerPanicked, startCtx, servers, watcher>>
    /\ ManagerFrame

\* Mutant: the first critical section stores the listener but not the URL.
Manager_StoreListener_NoURL(t) ==
    /\ ~managerPanicked
    /\ mcall[t].pc = "store_listener"
    /\ managerListener' = t
    /\ mcall' = [mcall EXCEPT ![t].pc = "fire"]
    /\ UNCHANGED <<managerPublicURL, managerServer, managerReady, managerPanicked,
                   startCtx, listeners, servers, watcher>>
    /\ ManagerFrame

\* Manager.Start, first critical section: m.listener and m.publicURL.
Manager_StoreListener(t) ==
    /\ ~managerPanicked
    /\ mcall[t].pc = "store_listener"
    /\ managerListener' = t
    /\ managerPublicURL' = ListenerURL(t)
    /\ mcall' = [mcall EXCEPT ![t].pc = "fire"]
    /\ UNCHANGED <<managerServer, managerReady, managerPanicked, startCtx,
                   listeners, servers, watcher>>
    /\ ManagerFrame

\* Manager.Start: close(m.ready); closing a closed channel panics.
Manager_Fire(t) ==
    /\ ~managerPanicked
    /\ mcall[t].pc = "fire"
    /\ IF managerReady
       THEN /\ managerPanicked' = TRUE
            /\ mcall' = [mcall EXCEPT ![t].pc = "panic"]
            /\ UNCHANGED managerReady
       ELSE /\ managerReady' = TRUE
            /\ mcall' = [mcall EXCEPT ![t].pc = "store_server"]
            /\ UNCHANGED managerPanicked
    /\ UNCHANGED <<managerListener, managerPublicURL, managerServer, startCtx,
                   listeners, servers, watcher>>
    /\ ManagerFrame

\* Manager.Start, second critical section: m.server; then the goroutine that
\* waits for ctx.Done() is started.
Manager_StoreServer(t) ==
    /\ ~managerPanicked
    /\ mcall[t].pc = "store_server"
    /\ managerServer' = t
    /\ watcher' = [watcher EXCEPT ![t] = "waiting"]
    /\ mcall' = [mcall EXCEPT ![t].pc = "serve"]
    /\ UNCHANGED <<managerListener, managerPublicURL, managerReady,
                   managerPanicked, startCtx, listeners, servers>>
    /\ ManagerFrame

\* The one Close of the onceCloseListener that Serve puts around a listener.
OnceClose(l) ==
    IF l.once # "unused" THEN l
    ELSE [state |-> "closed", once |-> IF l.state = "open" THEN "ok" ELSE "failed"]

ErrServerClosed == <<"http: Server closed">>

\* The error Start returns for the error e of m.server.Serve.
StartResult(e) ==
    IF e # Nil /\ e # ErrServerClosed
    THEN Wrap("server error", e)
    ELSE Nil

\* m.server.Serve(listener), entry: a server that is shutting down returns
\* ErrServerClosed, any other one tracks the listener and goes on to Accept.
\* Serve closes the listener when it returns.
Manager_Serve(t) ==
    /\ ~managerPanicked
    /\ mcall[t].pc = "serve"
    /\ LET s == managerServer
       IN  IF servers[s].inShutdown
           THEN /\ mcall' = [mcall EXCEPT ![t] =
                        [@ EXCEPT !.pc = "done",
                                  !.ret = StartResult(ErrServerClosed)]]
                /\ listeners' = [listeners EXCEPT ![t] = OnceClose(@)]
                /\ UNCHANGED servers
           ELSE /\ mcall' = [mcall EXCEPT ![t] = [@ EXCEPT !.pc = "accept", !.srv = s]]
                /\ servers' = [servers EXCEPT ![s].tracked = @ \cup {t}]
                /\ UNCHANGED listeners
    /\ UNCHANGED <<managerListener, managerPublicURL, managerServer, managerReady,
                   managerPanicked, startCtx, watcher>>
    /\ ManagerFrame

\* Serve's Accept fails on a closed listener: ErrServerClosed from a server
\* that is shutting down, else the error of Accept.
Manager_Accept(t) ==
    /\ ~managerPanicked
    /\ mcall[t].pc = "accept"
    /\ listeners[t].state = "closed"
    /\ LET s == mcall[t].srv
       IN  /\ mcall' = [mcall EXCEPT ![t] =
                  [@ EXCEPT !.pc = "done",
                            !.ret = StartResult(IF servers[s].inShutdown
                                                THEN ErrServerClosed
                                                ELSE ErrNetClosed)]]
           /\ servers' = [servers EXCEPT ![s].tracked = @ \ {t}]
           /\ listeners' = [listeners EXCEPT ![t] = OnceClose(@)]
    /\ UNCHANGED <<managerListener, managerPublicURL, managerServer, managerReady,
                   managerPanicked, startCtx, watcher>>
    /\ ManagerFrame

\* The error Manager.Close returns: that of m.server.Close() (the first error
\* of closing a tracked listener) or of m.listener.Close().
ManagerCloseResult ==
    IF managerServer # 0
    THEN IF \E l \in servers[managerServer].tracked :
                OnceClose(listeners[l]).once = "failed"
         THEN ErrNetClosed ELSE Nil
    ELSE IF managerListener # 0 /\ listeners[managerListener].state = "closed"
    THEN ErrNetClosed
    ELSE Nil

\* Manager.Close, one critical section of m.mu: the server, if there is one,
\* is closed (it shuts down and closes the listeners it tracks), else the
\* listener, if there is one.
ManagerClose ==
    IF managerServer # 0
    THEN /\ servers' = [servers EXCEPT ![managerServer].inShutdown = TRUE]
         /\ listeners' = [l \in ManagerCallers |->
                            IF l \in servers[managerServer].tracked
                            THEN OnceClose(listeners[l]) ELSE listeners[l]]
    ELSE IF managerListener # 0
    THEN /\ listeners' = [listeners EXCEPT ![managerListener].state = "closed"]
         /\ UNCHANGED servers
    ELSE UNCHANGED <<listeners, servers>>

Manager_Close(t) ==
    /\ ManagerIssue(t)
    /\ ManagerClose
    /\ mcall' = [mcall EXCEPT ![t] =
            [@ EXCEPT !.op = "Close", !.pc = "done", !.ret = ManagerCloseResult,
                      !.sawReady = managerReady]]
    /\ UNCHANGED <<managerListener, managerPublicURL, managerServer, managerReady,
                   managerPanicked, startCtx, watcher>>
    /\ ManagerFrame

\* Mutant: the watcher returns on ctx.Done() without calling Close.
Manager_Watcher_NoClose(t) ==
    /\ ~managerPanicked
    /\ watcher[t] = "waiting"
    /\ startCtx = "cancelled"
    /\ watcher' = [watcher EXCEPT ![t] = "done"]
    /\ UNCHANGED <<managerListener, managerPublicURL, managerServer, managerReady,
                   managerPanicked, startCtx, listeners, servers, mcall>>
    /\ ManagerFrame

\* The goroutine started by Start: <-ctx.Done(), then m.Close().
Manager_Watcher(t) ==
    /\ ~managerPanicked
    /\ watcher[t] = "waiting"
    /\ startCtx = "cancelled"
    /\ ManagerClose
    /\ watcher' = [watcher EXCEPT ![t] = "done"]
    /\ UNCHANGED <<managerListener, managerPublicURL, managerServer, managerReady,
                   managerPanicked, startCtx, mcall>>
    /\ ManagerFrame

\* The caller of Start cancels the context.
Manager_Cancel ==
    /\ ~managerPanicked
    /\ startCtx = "live"
    /\ startCtx' = "cancelled"
    /\ UNCHANGED <<managerListener, managerPublicURL, managerServer, managerReady,
                   managerPanicked, listeners, servers, mcall, watcher>>
    /\ ManagerFrame

\* --------------------------------------------------------------- the system

Next ==
    \/ \E t \in Callers : Start_Lock(t)
    \/ \E t \in Callers : Connect_Init(t)
    \/ \E t \in Callers : Connect_Request(t, Advertised)
    \/ \E t \in Callers : Connect_Assign(t)
    \/ \E t \in Callers : Open_Lock(t)
    \/ \E t \in Callers : Open_Dial(t)
    \/ \E t \in Callers : Open_Done(t)
    \/ \E t \in Callers : Connect_Mark(t)
    \/ \E t \in Callers : Start_Finish(t)
    \/ \E t \in Callers : Close_Lock(t)
    \/ \E t \in Callers : Provider_Close(t)
    \/ \E t \in Callers : Wait_Check(t)
    \/ \E t \in Callers : Wait_Timeout(t)
    \/ \E t \in Callers : Wait_Select(t)
    \/ \E c \in Slots : Worker_Check(c)
    \/ \E c \in Slots : Worker_Dial(c)
    \/ \E c \in Slots : Copy_Up(c)
    \/ \E c \in Slots : Copy_Down(c)
    \/ \E c \in Slots : Proxy_Return(c)

Spec == Init /\ [][Next]_vars

\* The timer of every WaitReady fires, and a goroutine whose select has a
\* ready case is scheduled.
WaitFairness ==
    \A t \in Callers : WF_vars(Wait_Timeout(t)) /\ WF_vars(Wait_Select(t))

FairSpec == Spec /\ WaitFairness

\* The relay provider without the Service: Connect and Close called directly
\* by the goroutines, with a pool of up to MaxPool slots.
ProviderNext ==
    \/ \E t \in Callers : Direct_Connect(t)
    \/ \E t \in Callers : Connect_Init(t)
    \/ \E t \in Callers : Connect_Request(t, PoolAdvertised)
    \/ \E t \in Callers : Connect_Assign(t)
    \/ \E t \in Callers : Open_Lock(t)
    \/ \E t \in Callers : Open_Dial(t)
    \/ \E t \in Callers : Open_Done(t)
    \/ \E t \in Callers : Connect_Mark(t)
    \/ \E t \in Callers : Direct_Return(t)
    \/ \E t \in Callers : Direct_Close(t)
    \/ \E t \in Callers : Provider_Close(t)
    \/ \E c \in Slots : Worker_Check(c)
    \/ \E c \in Slots : Worker_Dial(c)
    \/ \E c \in Slots : Copy_Up(c)
    \/ \E c \in Slots : Copy_Down(c)
    \/ \E c \in Slots : Proxy_Return(c)

ProviderSpec == Init /\ [][ProviderNext]_vars

\* Every worker goroutine that can take a step is scheduled (a directly driven
\* provider has at most MaxPool slots); a copy on sockets that have a deadline
\* ends, at the latest when the deadline elapses.
WorkerFairness ==
    \A c \in 1..MaxPool :
        /\ WF_vars(c \in Slots /\ Worker_Check(c))
        /\ WF_vars(c \in Slots /\ Worker_Dial(c))
        /\ WF_vars(c \in Slots /\ worker[c].deadline /\ Copy_Up(c))
        /\ WF_vars(c \in Slots /\ worker[c].deadline /\ Copy_Down(c))
        /\ WF_vars(c \in Slots /\ Proxy_Return(c))

ProviderFairSpec == ProviderSpec /\ WorkerFairness

\* The directly driven provider with the pool bound of the Service
\* specification, under the fairness of its workers.
SlotNext ==
    \/ \E t \in Callers : Direct_Connect(t)
    \/ \E t \in Callers : Connect_Init(t)
    \/ \E t \in Callers : Connect_Request(t, Advertised)
    \/ \E t \in Callers : Connect_Assign(t)
    \/ \E t \in Callers : Open_Lock(t)
    \/ \E t \in Callers : Open_Dial(t)
    \/ \E t \in Callers : Open_Done(t)
    \/ \E t \in Callers : Connect_Mark(t)
    \/ \E t \in Callers : Direct_Return(t)
    \/ \E t \in Callers : Direct_Close(t)
    \/ \E t \in Callers : Provider_Close(t)
    \/ \E c \in Slots : Worker_Check(c)
    \/ \E c \in Slots : Worker_Dial(c)
    \/ \E c \in Slots : Copy_Up(c)
    \/ \E c \in Slots : Copy_Down(c)
    \/ \E c \in Slots : Proxy_Return(c)

SlotFairSpec == Init /\ [][SlotNext]_vars /\ WorkerFairness

\* The directly driven provider together with the relay, which pushes requests
\* on the sockets of the pool.
RelayNext ==
    \/ ProviderNext
    \/ \E c \in Slots : Relay_Push(c)

RelaySpec == Init /\ [][RelayNext]_vars

\* Connect storing the assignment, for every max_conn_count of CapInputs: the
\* state in which requestTunnel has returned a TunnelInfo to the Connect of a
\* Start call, and Connect's second critical section.
CapInputs == (0 - MaxCapInput)..MaxCapInput

CapInit ==
    /\ started = TRUE
    /\ closed = FALSE
    /\ ready = FALSE
    /\ panicked = FALSE
    /\ publicURL = ""
    /\ localPort = LocalPort
    /\ tunnelPort = 0
    /\ connected = FALSE
    /\ mu = 0
    /\ connections = <<>>
    /\ maxConnections = 0
    /\ ctx = "live"
    /\ sockOpen = <<>>
    /\ worker = <<>>
    /\ pushed = <<>>
    /\ op = [t \in Callers |-> IF t = 1 THEN "Start" ELSE "none"]
    /\ pc = [t \in Callers |-> IF t = 1 THEN "assign" ELSE "idle"]
    /\ ret = [t \in Callers |-> Nil]
    /\ \E advertised \in CapInputs :
          info = [t \in Callers |->
                    IF t = 1
                    THEN [DoErr |-> Nil, StatusCode |-> 200, Body |-> "json",
                          MaxConn |-> advertised]
                    ELSE [DoErr |-> Nil, StatusCode |-> 0, Body |-> "", MaxConn |-> 0]]
    /\ i = [t \in Callers |-> 0]
    /\ err = [t \in Callers |-> Nil]
    /\ expired = [t \in Callers |-> FALSE]
    /\ before = [t \in Callers |-> {}]
    /\ connectCalls = 1
    /\ closeCalls = 0
    /\ readyFires = 0
    /\ NewManager(LocalPort)

CapNext == \E t \in Callers : Connect_Assign(t)

CapSpec == CapInit /\ [][CapNext]_vars

\* The local proxy handler serving NumRequests requests, for every target port.
ProxyInit == NewService /\ \E port \in Ports : NewManager(port)

ProxyNext ==
    \/ \E h \in Requests : Handler_Dial(h)
    \/ \E h \in Requests : Handler_Write(h)
    \/ \E h \in Requests : Handler_Read(h)
    \/ \E h \in Requests : Handler_Respond(h)
    \/ \E h \in Requests : Handler_Copy(h)

ProxySpec == ProxyInit /\ [][ProxyNext]_vars

\* The local proxy Manager: goroutines calling Start and Close, the watcher
\* goroutines and the cancellation of the context.
ManagerNext ==
    \/ \E t \in ManagerCallers : Manager_Listen(t)
    \/ \E t \in ManagerCallers : Manager_StoreListener(t)
    \/ \E t \in ManagerCallers : Manager_Fire(t)
    \/ \E t \in ManagerCallers : Manager_StoreServer(t)
    \/ \E t \in ManagerCallers : Manager_Serve(t)
    \/ \E t \in ManagerCallers : Manager_Accept(t)
    \/ \E t \in ManagerCallers : Manager_Close(t)
    \/ \E t \in ManagerCallers : Manager_Watcher(t)
    \/ Manager_Cancel

ManagerSpec == Init /\ [][ManagerNext]_vars

\* The goroutines of Start calls and the watchers are scheduled: a step of
\* Start after net.Listen, a return of Serve and the Close of a watcher whose
\* context is done are not postponed forever.  When a call is issued and
\* whether the context is cancelled is up to the caller.
ManagerFairness ==
    \A t \in ManagerCallers :
        /\ WF_vars(Manager_StoreListener(t))
        /\ WF_vars(Manager_Fire(t))
        /\ WF_vars(Manager_StoreServer(t))
        /\ WF_vars(Manager_Serve(t))
        /\ WF_vars(Manager_Accept(t))
        /\ WF_vars(Manager_Watcher(t))

ManagerFairSpec == ManagerSpec /\ ManagerFairness

\* ================================================================ claims

StartCalls == { t \in Callers : op[t] = "Start" }
CloseCalls == { t \in Callers : op[t] = "Close" }
WaitCalls == { t \in Callers : op[t] = "WaitReady" }
\* The Start calls that were not rejected with "tunnel already started".
NotRejected == { t \in StartCalls : ~(pc[t] = "done" /\ ret[t] = ErrAlreadyStarted) }
\* No Connect has failed or is about to return a failure.
ConnectSucceeds == \A t \in Callers : err[t] = Nil

\* C1: on a never closed Service whose provider's Connect succeeds, among any
\* number of concurrent or sequential Start calls at most one is not rejected
\* with "tunnel already started", and once every Start call has returned
\* exactly one has returned nil and every other "tunnel already started".
C1_OnlyFirstStartSucceeds ==
    (~closed /\ ConnectSucceeds) =>
        /\ Cardinality(NotRejected) <= 1
        /\ (StartCalls # {} /\ StartCalls \subseteq Returned) =>
              /\ Cardinality({ t \in StartCalls : ret[t] = Nil }) = 1
              /\ \A t \in StartCalls : ret[t] \in {Nil, ErrAlreadyStarted}

C1_Witness ==
    /\ ~closed
    /\ StartCalls = Callers
    /\ Callers \subseteq Returned
    /\ \E t \in Callers :
          /\ ret[t] = Nil
          /\ \A u \in Callers \ {t} : ret[u] = ErrAlreadyStarted

\* A step in which a Start call is issued and rejected at once.
RejectedStart(t) ==
    /\ pc[t] = "idle"
    /\ pc'[t] = "done"
    /\ op'[t] = "Start"

\* C2: a rejected Start neither calls the provider's Connect nor changes
\* started, closed, the readiness latch or the provider, and Connect is
\* invoked at most once over the whole run.
C2_RejectedStartTouchesNothing ==
    [][ /\ \A t \in Callers :
              RejectedStart(t) =>
                  /\ ret'[t] \in {ErrAlreadyStarted, ErrServiceClosed}
                  /\ UNCHANGED <<started, closed, ready, connectCalls, ltVars, poolVars>>
        /\ connectCalls' <= 1 ]_vars

C2_Witness ==
    /\ connectCalls = 1
    /\ \E t, u \in StartCalls :
          /\ pc[t] = "done" /\ ConnectFailed(ret[t])
          /\ pc[u] = "done" /\ ret[u] = ErrAlreadyStarted
          /\ "StartFailed" \in before[u]

\* C3: a Close of a never started service returns nil, and every Start issued
\* after a Close of a never started service has returned is rejected with
\* "service is closed", with no Connect call and the latch unfired.
C3_StartAfterCloseIsRejected ==
    /\ \A c \in CloseCalls : pc[c] = "done" => ret[c] = Nil
    /\ \A t \in StartCalls :
          ("Close" \in before[t] /\ "Started" \notin before[t]) =>
              /\ pc[t] = "done"
              /\ ret[t] = ErrServiceClosed
              /\ connectCalls = 0
              /\ ~ready

C3_Witness ==
    \E c \in CloseCalls, t \in StartCalls :
        /\ pc[c] = "done" /\ ret[c] = Nil
        /\ "Close" \in before[t] /\ "Started" \notin before[t]
        /\ pc[t] = "done" /\ ret[t] = ErrServiceClosed

\* Exactly one of the Close calls issued so far has marked closed and called
\* the provider's Close, and every Close call that has returned returned nil.
OneCloseDelegates ==
    /\ closeCalls = (IF \E c \in Callers : op[c] = "Close" THEN 1 ELSE 0)
    /\ closed <=> closeCalls = 1
    /\ \A c, d \in Callers :
          (pc[c] = "provider_close" /\ pc[d] = "provider_close") => c = d
    /\ \A c \in Callers : (op[c] = "Close" /\ pc[c] = "done") => ret[c] = Nil

\* A step in which a Close call is issued and returns at once.
NoOpClose(c) ==
    /\ pc[c] = "idle"
    /\ pc'[c] = "done"
    /\ op'[c] = "Close"

\* C4: among any number of Close calls exactly one marks closed and calls the
\* provider's Close (which is so invoked exactly once); every other one
\* returns nil at once and changes nothing.
C4_CloseIsIdempotent ==
    [][ /\ OneCloseDelegates'
        /\ \A c \in Callers :
              NoOpClose(c) =>
                  /\ closed
                  /\ ret'[c] = Nil
                  /\ UNCHANGED <<svcVars, ltVars, poolVars, closeCalls>> ]_vars

C4_Witness ==
    /\ closeCalls = 1
    /\ \E c, d \in CloseCalls : c # d /\ pc[c] = "done" /\ pc[d] = "done"

\* A slot worker that nothing will stop: it has not exited and the
\* cancellation scope it polls has not fired.
KeepsRunning(c) == worker[c].pc # "exited" /\ ctx # "cancelled"

\* C5: for one Start and one Close on a Service backed by the relay provider,
\* once both calls have returned the provider is not connected, its slot
\* collection is empty and no slot worker keeps running.
C5_CloseTearsEverythingDown ==
    ( /\ Cardinality(StartCalls) = 1
      /\ Cardinality(CloseCalls) = 1
      /\ StartCalls \cup CloseCalls \subseteq Returned ) =>
        /\ ~connected
        /\ connections = <<>>
        /\ \A w \in Slots : ~KeepsRunning(w)

\* Some Start call has had the provider's Connect return without error.
ConnectReturnedNil ==
    \E t \in StartCalls :
        \/ pc[t] = "connected" /\ err[t] = Nil
        \/ pc[t] = "done" /\ ret[t] = Nil

\* C6: the readiness channel is readable only once a Start call has had
\* Connect succeed, and once readable it stays readable in every later state,
\* also after Close.
C6_ReadinessIsPermanent ==
    [][ /\ ready => ready'
        /\ ready' => ConnectReturnedNil' ]_vars

C6_Witness ==
    /\ ready
    /\ \E c \in CloseCalls : pc[c] = "done" /\ closeCalls = 1
    /\ ~connected

\* C7: close(s.ready) is executed at most once, never on a closed channel, and
\* only by a Start call whose Connect returned without error.
C7_LatchFiresAtMostOnce ==
    /\ ~panicked
    /\ readyFires <= 1
    /\ readyFires = (IF ready THEN 1 ELSE 0)
    /\ ready =>
          \E t \in StartCalls : pc[t] = "done" /\ ret[t] = Nil /\ err[t] = Nil

C7_Witness ==
    /\ readyFires = 1
    /\ \E t, u \in StartCalls :
          /\ pc[t] = "done" /\ ret[t] = Nil
          /\ pc[u] = "done" /\ ret[u] = ErrAlreadyStarted
    /\ \E c \in CloseCalls : pc[c] = "done"

\* C8: when the provider's Connect fails, Start returns the provider's error
\* wrapped, started stays true, the latch is never fired, no second Connect
\* is attempted, every later Start returns "tunnel already started" and every
\* later WaitReady that returns returns the timeout error.
C8_FailedStartIsFinal ==
    /\ \A t \in StartCalls :
          (pc[t] = "done" /\ err[t] # Nil) =>
              /\ ret[t] = Wrap(ErrConnect, err[t])
              /\ started
              /\ ~ready
              /\ connectCalls = 1
    /\ \A u \in Callers :
          "StartFailed" \in before[u] =>
              /\ started /\ ~ready /\ connectCalls = 1
              /\ op[u] = "Start" => (pc[u] = "done" /\ ret[u] = ErrAlreadyStarted)
              /\ op[u] = "WaitReady" => (pc[u] = "select" \/ (pc[u] = "done" /\ ret[u] = ErrTimeout))

C8_Witness ==
    \E t, u, v \in Callers :
        /\ op[t] = "Start" /\ pc[t] = "done" /\ ConnectFailed(ret[t])
        /\ op[u] = "Start" /\ "StartFailed" \in before[u] /\ ret[u] = ErrAlreadyStarted
        /\ op[v] = "WaitReady" /\ "StartFailed" \in before[v]
        /\ pc[v] = "done" /\ ret[v] = ErrTimeout

\* A step in which WaitReady is issued.
WaitIssued(t) == pc[t] = "idle" /\ op'[t] = "WaitReady"
\* A step in which the select of WaitReady returns.
SelectReturns(t) == pc[t] = "select" /\ pc'[t] = "done"

C10_StartedAndClosedAreMonotonic ==
    [][ /\ started => started'
        /\ closed => closed' ]_vars

C10_Witness ==
    /\ started
    /\ closed
    /\ \E t \in StartCalls, c \in CloseCalls :
          pc[t] = "done" /\ pc[c] = "done" /\ "Started" \in before[c]

\* The provider's Close has run to its end.
TornDown == closeCalls > 0 /\ \A c \in Callers : pc[c] # "provider_close"

\* C11: the relay session's connected flag is true if and only if Connect has
\* completed the pool warm-up successfully and the provider's Close has not run;
\* in particular it is not true after a Close that ran while Connect was still
\* in progress.
C11_ConnectedIffWarmedUpAndNotTornDown ==
    connected <=> (ConnectReturnedNil /\ ~TornDown)

\* C12: after the assignment has been stored, the session's effective max
\* connection count is min(advertised, clientMaxConn) when the advertised
\* max_conn_count is positive and clientMaxConn when it is 0.
C12_EffectiveMaxIsCappedMinimum ==
    \A t \in Callers :
        pc[t] = "open" =>
            LET advertised == info[t].MaxConn
            IN  /\ (advertised > 0 /\ advertised <= clientMaxConn) =>
                      maxConnections = advertised
                /\ advertised > clientMaxConn => maxConnections = clientMaxConn
                /\ advertised = 0 => maxConnections = clientMaxConn

C12_Witness ==
    \E t \in Callers :
        /\ pc[t] = "open"
        /\ info[t].MaxConn > clientMaxConn
        /\ maxConnections = clientMaxConn

\* The Connect of t has failed in the pool warm-up; i[t] is the index k of the
\* dial that failed.
WarmUpFailed(t) ==
    /\ pc[t] \in {"connected", "done"}
    /\ Len(err[t]) > 0
    /\ err[t][1] = "failed to open connections"

\* C13: when dial k of the N dials of a warm-up has failed, the k connections
\* opened before it are closed, the slot collection is empty, Connect returns
\* an error, connected is false and no further connection is dialled.
C13_WarmUpIsAllOrNothing ==
    \A t \in Callers :
        WarmUpFailed(t) =>
            /\ i[t] < maxConnections
            /\ Len(sockOpen) = i[t]
            /\ \A c \in 1..i[t] : ~sockOpen[c]
            /\ connections = <<>>
            /\ ~connected
            /\ pc[t] = "done" => (ret[t] # Nil /\ ret[t] = err[t])

C13_Witness ==
    \E t \in Callers :
        /\ WarmUpFailed(t)
        /\ pc[t] = "done"
        /\ maxConnections = 2
        /\ i[t] = 1
        /\ Len(sockOpen) = 1 /\ ~sockOpen[1]

\* C14: after a warm-up that failed at dial k, every slot worker started for
\* the connections opened before it eventually terminates, whether the local
\* target is reachable or not, without Close being called: as long as no Close
\* is called, a failed warm-up leads to a state with every worker exited.
C14_FailedWarmUpLeavesNoWorker ==
    (\E t \in Callers : WarmUpFailed(t))
        ~> ((\A c \in Slots : worker[c].pc = "exited") \/ closeCalls > 0)

\* A step in which the Connect of t returns success.
ConnectReturnsSuccess(t) == pc[t] = "mark" /\ pc'[t] = "connected"

\* The conversations in flight: the workers inside a bidirectional copy.
InFlight == { c \in Slots : worker[c].pc = "copy" }

\* C15: when Connect returns success the session has opened exactly
\* maxConnections relay connections, the slot collection holds exactly those
\* and one worker was started per connection; and in every state reached
\* through the Service at most maxConnections conversations are in flight.
C15_PoolHasExactlyEffectiveMaxSlots ==
    [][ /\ \A t \in Callers :
              ConnectReturnsSuccess(t) =>
                  /\ Len(sockOpen') = maxConnections'
                  /\ Len(worker') = maxConnections'
                  /\ connections' = [c \in 1..maxConnections' |-> c]
        /\ Cardinality(InFlight') <= maxConnections' ]_vars

\* The assignment request of t's Connect has failed: no response, a status
\* other than 200, or a body that is not JSON.
HandshakeFailed(t) ==
    \/ info[t].DoErr # Nil
    \/ info[t].StatusCode \notin {0, 200}
    \/ info[t].StatusCode = 200 /\ info[t].Body # "json"

\* The non-200 responses whose error message is msg.
StatusResponses(msg) ==
    { r \in Responses({}) :
        r.DoErr = Nil /\ r.StatusCode # 200 /\ requestTunnel(r) = <<msg>> }

\* C16: when the assignment handshake fails, Connect returns an error (the
\* transport error, for a non-200 status a message that identifies the status
\* code and the body, for a non-JSON body a decode error), no relay connection
\* has been dialled, no worker started, connected is false and the public URL
\* is empty.
C16_HandshakeFailureLeavesNothing ==
    \A t \in Callers :
        HandshakeFailed(t) =>
            /\ pc[t] \in {"connected", "done"}
            /\ Len(err[t]) >= 2
            /\ err[t][1] = "failed to request tunnel"
            /\ info[t].DoErr # Nil => err[t] = Wrap("failed to request tunnel", info[t].DoErr)
            /\ (info[t].DoErr = Nil /\ info[t].StatusCode # 200) =>
                  /\ Len(err[t]) = 2
                  /\ \A r \in StatusResponses(err[t][2]) :
                        r.StatusCode = info[t].StatusCode /\ r.Body = info[t].Body
                  /\ StatusResponses(err[t][2]) # {}
            /\ (info[t].DoErr = Nil /\ info[t].StatusCode = 200) =>
                  /\ info[t].Body # "json"
                  /\ err[t][2] = "decode error"
            /\ pc[t] = "done" => ret[t] = Wrap(ErrConnect, err[t])
            /\ sockOpen = <<>>
            /\ worker = <<>>
            /\ connections = <<>>
            /\ ~connected
            /\ publicURL = ""

C16_Witness ==
    \E t, u \in Callers :
        /\ HandshakeFailed(t)
        /\ pc[t] = "done"
        /\ info[t].StatusCode = 500 /\ info[t].Body = "internal server error"
        /\ ret[t] = <<ErrConnect, "failed to request tunnel",
                      "status 500:internal server error">>
        /\ op[u] = "Close" /\ pc[u] = "done"

\* A step in which the provider's Close, called by t, returns.
ProviderCloseReturns(t) == pc[t] = "provider_close" /\ pc'[t] = "done"

\* C17: the relay provider's Close, called before Connect, once, repeatedly or
\* concurrently with itself, returns nil; when it returns the cancellation
\* scope, if there is one, has fired, the slot collection is empty, every
\* connection it held is closed and connected is false; and a Close that finds
\* this state leaves it unchanged.
C17_ProviderCloseIsIdempotent ==
    [][ \A t \in Callers :
          ProviderCloseReturns(t) =>
              /\ ret'[t] = Nil
              /\ ~panicked'
              /\ ctx' = (IF ctx = "nil" THEN "nil" ELSE "cancelled")
              /\ connections' = <<>>
              /\ \A c \in Range(connections) : ~sockOpen'[c]
              /\ ~connected'
              /\ (connections = <<>> /\ ~connected /\ ctx # "live") =>
                    UNCHANGED <<ltVars, poolVars>> ]_vars

\* Two direct Close calls have returned after a Connect that opened two slots.
C17_Witness ==
    /\ \E t, u \in Callers :
          /\ t # u
          /\ op[t] = "lt.Close" /\ pc[t] = "done" /\ ret[t] = Nil
          /\ op[u] = "lt.Close" /\ pc[u] = "done" /\ ret[u] = Nil
    /\ connectCalls = 1
    /\ ctx = "cancelled"
    /\ Len(sockOpen) = 2
    /\ connections = <<>>
    /\ ~connected

\* localTunnel.PublicURL(): lt.publicURL, read under lt.mu.RLock().
PublicURL == publicURL

\* C18: in every state in which Connect has not returned success (never
\* called, in progress, or failed in the handshake or in the pool warm-up),
\* the provider's PublicURL() returns the empty string.
C18_PublicURLEmptyUntilConnected ==
    ~ConnectReturnedNil => PublicURL = ""

\* A step in which the worker of slot c exits, or ends a conversation.
SlotFails(c) ==
    /\ worker[c].pc \in {"local", "copy"}
    /\ worker'[c].pc \in {"exited", "check"}

\* C19: when the worker of one slot exits because its local dial failed, or
\* its conversation ends, no other slot's worker, socket or conversation in
\* flight changes, and the session's connected flag, public URL and
\* cancellation scope are unchanged.
C19_SlotFailuresAreIsolated ==
    [][ \A c \in Slots :
          SlotFails(c) =>
              /\ \A d \in Slots \ {c} :
                    worker'[d] = worker[d] /\ sockOpen'[d] = sockOpen[d]
              /\ UNCHANGED <<connected, publicURL, ctx, connections>> ]_vars

\* The worker of slot 1 has exited on a failed local dial while slot 2 is in a
\* conversation and the session is connected.
C19_Witness ==
    /\ Len(worker) = 2
    /\ ctx = "live"
    /\ connected
    /\ worker[1].pc = "exited" /\ ~sockOpen[1]
    /\ worker[2].pc = "copy" /\ sockOpen[2]

\* A step in which the handler of request h returns because its dial of the
\* target failed.
DialFails(h) == handler[h].pc = "idle" /\ handler'[h].pc = "done"

\* C20: when the dial of localhost:targetPort fails, the caller receives
\* exactly one response, with status 502 and a non-empty body that names the
\* unreachable port (and no other port), and nothing is forwarded to the
\* target; the response of a handler that has returned does not change.
C20_DialFailureAnswers502 ==
    [][ \A h \in Requests :
          /\ DialFails(h) =>
                /\ handler'[h].w.calls = 1
                /\ handler'[h].w.code = 502
                /\ handler'[h].w.body # <<>>
                /\ Itoa(managerLocalPort) \in Range(handler'[h].w.body)
                /\ \A port \in Ports \ {managerLocalPort} :
                      Itoa(port) \notin Range(handler'[h].w.body)
                /\ handler'[h].forwarded = "nothing"
                /\ handler'[h].resp = NoResponse
          /\ handler[h].pc = "done" => handler'[h] = handler[h] ]_vars

\* A request against port 65000 was answered 502 after a failed dial while
\* another request was forwarded.
C20_Witness ==
    /\ managerLocalPort = 65000
    /\ \E h, g \in Requests :
          /\ handler[h].pc = "done"
          /\ handler[h].w.code = 502
          /\ handler[h].w.calls = 1
          /\ handler[h].w.body =
                <<"Failed to connect localhost:", "65000",
                  " - is your server running?", "\n">>
          /\ handler[h].forwarded = "nothing"
          /\ handler[g].forwarded = "request"

\* The handler of request h has returned after the target answered with a
\* complete response and the copy of its body did not fail.
Relayed(h) ==
    /\ handler[h].pc = "done"
    /\ handler[h].resp \in TargetResponses
    /\ ~handler[h].copyErr

\* C21: for every request whose target is live and answers with a complete
\* response, the response the caller receives has the status code, the header
\* fields and values and the body of the response the target produced, and
\* the request was forwarded to the target.
C21_LiveTargetResponseIsRelayed ==
    \A h \in Requests :
        Relayed(h) =>
            /\ handler[h].w.calls = 1
            /\ handler[h].w.code = handler[h].resp.StatusCode
            /\ handler[h].w.header = handler[h].resp.Header
            /\ handler[h].w.body = handler[h].resp.Body
            /\ handler[h].forwarded = "request"

\* One request was answered with the 200 response of the target, another one
\* with its 404 response.
C21_Witness ==
    \E h, g \in Requests :
        /\ Relayed(h)
        /\ handler[h].w.code = 200
        /\ handler[h].w.header = {<<"X-Test-Header", "test-value">>}
        /\ handler[h].w.body = <<"Hello from local server">>
        /\ Relayed(g)
        /\ handler[g].w.code = 404
        /\ handler[g].w.body = <<>>

ManagerStartCalls == { t \in ManagerCallers : mcall[t].op = "Start" }
ManagerCloseCalls == { t \in ManagerCallers : mcall[t].op = "Close" }

\* The Start call t has returned from the serve loop.
ServeReturned(t) ==
    /\ mcall[t].op = "Start"
    /\ mcall[t].pc = "done"
    /\ mcall[t].ret \notin {ErrCanceled, Wrap("failed to create listener", ErrListen)}

\* C22: when Close is called after the readiness channel of a Manager has
\* fired (before the server has been stored, before the serve loop has begun
\* or while it runs), the one Start call of that Manager returns nil, not the
\* failure of the serve loop on the closed listener.
C22_CloseRacingStartIsNotReported ==
    \A t \in ManagerCallers :
        ( /\ ServeReturned(t)
          /\ ManagerStartCalls = {t}
          /\ \A c \in ManagerCloseCalls : mcall[c].sawReady )
            => mcall[t].ret = Nil

\* C23: once the cancellation scope has fired, no worker starts another
\* conversation, and Close returns without waiting for a worker or changing
\* one; a conversation whose copy is in flight when the scope has fired ends
\* in both directions (at the latest at its deadline) and its worker exits:
\* from some point on, whenever the scope has fired every worker has exited.
C23_CancelledCopyEndsAndWorkerExits ==
    /\ [][ /\ \A c \in Slots :
                  (ctx = "cancelled" /\ worker[c].pc # "local") =>
                      worker'[c].pc # "local"
            /\ \A t \in Callers : ProviderCloseReturns(t) => worker' = worker ]_vars
    /\ <>[](ctx = "cancelled" => \A c \in Slots : worker[c].pc = "exited")

\* Close has returned while a conversation is in flight, one of its directions
\* ended and the other not.
C23_Witness ==
    /\ ctx = "cancelled"
    /\ \E t \in Callers : op[t] = "lt.Close" /\ pc[t] = "done"
    /\ \E c \in Slots :
          worker[c].pc = "copy" /\ worker[c].up /\ ~worker[c].down

\* A step in which the proxyRequest of slot c returns: its conversation ends.
ProxyReturns(c) == worker[c].pc = "copy" /\ worker'[c].pc # "copy"

\* C24: when a conversation's copy ends on a relay socket that is no longer
\* usable (it has been closed) the worker exits instead of looping to await
\* the next conversation and dial the local target again; a scope that has
\* fired makes the worker exit at the top of the loop, so the case is the one
\* of a scope that has not fired.
C24_WorkerLoopsOnlyOnUsableSocket ==
    [][ \A c \in Slots :
          (ProxyReturns(c) /\ ~sockOpen[c] /\ ctx # "cancelled") =>
              worker'[c].pc = "exited" ]_vars

\* A step in which the worker of slot c dials the local target (the dial
\* fails and the worker exits, or it succeeds and the copies start).
DialsLocal(c) == worker[c].pc = "local" /\ worker'[c].pc # "local"

\* C25: a slot dials the local target only after the relay has pushed a
\* request on its socket: a slot on which the relay has sent nothing makes no
\* dial attempt and holds no connection to the local target.
C25_RelayPushesBeforeLocalDial ==
    [][ \A c \in Slots : DialsLocal(c) => pushed[c] ]_vars

\* C26: a conversation ends as soon as one direction of its copy has ended:
\* in every state in which one direction has ended, proxyRequest can return
\* without the other direction having ended.
C26_CopyEndsWithFirstDirection ==
    \A c \in Slots :
        (worker[c].pc = "copy" /\ (worker[c].up \/ worker[c].down)) =>
            ENABLED Proxy_Return(c)

\* C27: in every conversation both sockets have their deadline when the
\* copies run, and every conversation that was started ends (proxyRequest
\* returns), also when neither peer sends data or closes its side.
C27_EveryConversationEnds ==
    /\ [](\A c \in Slots : worker[c].pc = "copy" => worker[c].deadline)
    /\ \A c \in 1..MaxPool :
          (c \in Slots /\ worker[c].pc = "copy")
              ~> (c \in Slots /\ worker[c].pc # "copy")

\* Both copies of a conversation have ended on sockets that are open and have
\* their deadline, the scope not having fired and the relay having sent nothing.
C27_Witness ==
    \E c \in Slots :
        /\ worker[c].pc = "copy" /\ worker[c].deadline
        /\ worker[c].up /\ worker[c].down
        /\ sockOpen[c] /\ ~pushed[c]
        /\ ctx = "live"

\* C28: in the state in which the relay provider's Close returns, every slot
\* worker of the session has exited.
C28_WorkersJoinedBeforeCloseReturns ==
    [][ \A t \in Callers :
          ProviderCloseReturns(t) => \A c \in Slots : worker'[c].pc = "exited" ]_vars

\* C29: no goroutine holds lt.mu while it has a relay dial or the assignment
\* request in progress (the local dials and the copies are the workers',
\* which never take lt.mu).
C29_LockNotHeldAcrossIO ==
    \A t \in Callers :
        mu = t =>
            /\ ~(pc[t] = "dial" /\ i[t] < maxConnections)
            /\ pc[t] # "request"

\* The fields of the session that lt.mu guards.
SharedFields == <<connections, publicURL, connected>>

\* Goroutine t takes a step of its call.
Steps(t) == pc'[t] # pc[t] \/ i'[t] # i[t]

\* C30: every step that changes the slot collection, the public URL or the
\* connected flag is taken by a goroutine that holds lt.mu's write lock (it
\* holds it already, or takes it with no other holder), and IsConnected reads
\* the flag with no writer holding the lock.
C30_SharedFieldsUnderLock ==
    [][ /\ SharedFields' # SharedFields =>
              \E t \in Callers : Steps(t) /\ (mu = 0 \/ mu = t)
        /\ \A t \in Callers :
              (pc[t] = "idle" /\ op'[t] = "WaitReady") => mu = 0 ]_vars

\* A Close waits for lt.mu, which the warm-up holds with one connection in the
\* slot collection, and a WaitReady has read the connected flag.
C30_Witness ==
    \E t, u, v \in Callers :
        /\ mu = t /\ pc[t] = "dial"
        /\ connections # <<>>
        /\ pc[u] = "provider_close"
        /\ op[v] = "WaitReady"

\* Steps in which the handler of request h returns because r.Write(conn), or
\* http.ReadResponse, failed; and one in which io.Copy(w, resp.Body) fails.
WriteFails(h) == handler[h].pc = "write" /\ handler'[h].pc = "done"
ReadFails(h) == handler[h].pc = "read" /\ handler'[h].pc = "done"
CopyFails(h) == handler[h].pc = "copy" /\ handler'[h].copyErr

\* C31: a failure to write the request to the target and a failure to read
\* the target's response each yield a 502 response to the caller; for every
\* request at most one status line is written; a failure of the body copy
\* after the status and the headers were written changes neither the status
\* nor the headers and is not reported: the caller has the target's status
\* and a prefix of the target's body, and no error text.
C31_ProxyFailurePolicy ==
    [][ \A h \in Requests :
          /\ (WriteFails(h) \/ ReadFails(h)) =>
                /\ handler'[h].w.code = 502
                /\ handler'[h].w.calls = 1
                /\ handler'[h].w.body # <<>>
          /\ handler'[h].w.calls <= 1
          /\ CopyFails(h) =>
                /\ handler[h].w.calls = 1
                /\ handler'[h].w.calls = 1
                /\ handler'[h].w.code = handler[h].resp.StatusCode
                /\ handler'[h].w.header = handler[h].w.header
                /\ Len(handler'[h].w.body) < Len(handler[h].resp.Body)
                /\ handler'[h].w.body =
                      SubSeq(handler[h].resp.Body, 1, Len(handler'[h].w.body)) ]_vars

\* One request was answered 502 because the response of the target could not
\* be read (its request having been forwarded), and the body copy of another
\* one failed after the status 200 of the target had been written.
C31_Witness ==
    \E h, g \in Requests :
        /\ handler[h].pc = "done"
        /\ handler[h].forwarded = "request"
        /\ handler[h].resp = NoResponse
        /\ handler[h].w.code = 502
        /\ handler[h].w.calls = 1
        /\ handler[g].pc = "done"
        /\ handler[g].copyErr
        /\ handler[g].w.code = 200
        /\ handler[g].w.calls = 1

\* A step in which goroutine t calls Start with a context that is already
\* cancelled.
StartsCancelled(t) ==
    /\ mcall[t].pc = "idle"
    /\ mcall'[t].op = "Start"
    /\ startCtx = "cancelled"

\* C32: Manager.Start called with an already cancelled context returns the
\* context's cancellation error and does nothing else: it binds no listener,
\* it leaves m.listener, the public URL, the readiness channel and m.server as
\* they are (nil, empty and unfired on a new Manager), it creates no server
\* and starts no watcher.
C32_PreCancelledStartDoesNothing ==
    [][ \A t \in ManagerCallers :
          StartsCancelled(t) =>
              /\ mcall'[t].pc = "done"
              /\ mcall'[t].ret = ErrCanceled
              /\ listeners' = listeners
              /\ servers' = servers
              /\ watcher' = watcher
              /\ managerListener' = managerListener
              /\ managerPublicURL' = managerPublicURL
              /\ managerReady' = managerReady
              /\ managerServer' = managerServer
              /\ managerPanicked' = managerPanicked
              /\ (ManagerStartCalls = {} =>
                    /\ managerListener' = 0
                    /\ managerPublicURL' = ""
                    /\ ~managerReady'
                    /\ managerServer' = 0) ]_vars

\* The first Start of a Manager was called with a cancelled context and has
\* returned the cancellation error; the Manager is as NewManager left it
\* (TestManager_Start_PreCancelledContext).
C32_Witness ==
    /\ startCtx = "cancelled"
    /\ mcall[1].op = "Start"
    /\ mcall[1].pc = "done"
    /\ mcall[1].ret = ErrCanceled
    /\ ManagerStartCalls = {1}
    /\ managerListener = 0
    /\ managerPublicURL = ""
    /\ ~managerReady
    /\ managerServer = 0
    /\ \A t \in ManagerCallers : listeners[t].state = "none"

\* No call or watcher has run Manager.Close yet.
NeverClosed ==
    /\ ManagerCloseCalls = {}
    /\ \A t \in ManagerCallers : watcher[t] # "done"

Serving(t) ==
    /\ mcall[t].op = "Start"
    /\ mcall[t].pc \in {"store_server", "serve", "accept"}

\* C34: once the one Start of a Manager has signalled readiness, firing the
\* cancellation scope makes the watcher close the server, which unblocks the
\* serve loop, so Start eventually returns; with no Close called by anyone
\* else, a Start that has returned from the serve loop was unblocked by the
\* watcher's Close of its server after the scope fired, and it returned nil.
C34_CancelStopsServeLoop ==
    /\ [](\A t \in ManagerCallers :
            (ServeReturned(t) /\ ManagerCloseCalls = {}) =>
                /\ startCtx = "cancelled"
                /\ watcher[t] = "done"
                /\ servers[t].inShutdown
                /\ listeners[t].state = "closed"
                /\ mcall[t].ret = Nil)
    /\ \A t \in ManagerCallers :
          (Serving(t) /\ managerReady /\ startCtx = "cancelled")
              ~> (mcall[t].pc = "done" \/ ManagerStartCalls # {t})

\* Start served, the context was cancelled, the watcher closed the server and
\* Start has returned nil; nobody else called Close
\* (TestManager_Start_Success).
C34_Witness ==
    /\ ManagerStartCalls = {1}
    /\ ManagerCloseCalls = {}
    /\ startCtx = "cancelled"
    /\ watcher[1] = "done"
    /\ servers[1].inShutdown
    /\ mcall[1].pc = "done"
    /\ mcall[1].ret = Nil
    /\ managerReady

\* The Close call c was issued before any Start, or with the readiness
\* channel fired.
BeforeStartOrReady(c) ==
    \/ mcall[c].sawReady
    \/ \A u \in ManagerCallers : u < c => mcall[u].op # "Start"

\* C35: on a Manager with at most one Start, Close returns nil when it is
\* called before Start, when it is called after readiness and when it is
\* called again after an earlier such Close.
C35_CloseReturnsNil ==
    \A c \in ManagerCloseCalls :
        ( /\ mcall[c].pc = "done"
          /\ Cardinality(ManagerStartCalls) <= 1
          /\ \A d \in ManagerCloseCalls : d <= c => BeforeStartOrReady(d) )
            => mcall[c].ret = Nil

\* C36: for every advertised max_conn_count, zero and negative values
\* included, the effective max connection count Connect stores lies in
\* 1..clientMaxConn, so the warm-up that follows is asked for at least one
\* and at most clientMaxConn connections.
C36_EffectiveMaxInRange ==
    \A t \in Callers :
        pc[t] = "open" =>
            /\ maxConnections \in 1..clientMaxConn
            /\ info[t].MaxConn <= 0 => maxConnections = clientMaxConn

\* Connect has stored the effective max for a negative advertised value.
C36_Witness ==
    \E t \in Callers :
        /\ pc[t] = "open"
        /\ info[t].MaxConn < 0
        /\ maxConnections = clientMaxConn

\* C37: whenever the session reports connected = true, every connection held
\* in lt.connections is open and its worker is running, and at least one
\* worker is running.
C37_ConnectedPoolIsLive ==
    connected =>
        /\ \A k \in DOMAIN connections :
              /\ sockOpen[connections[k]]
              /\ worker[connections[k]].pc # "exited"
        /\ \E c \in Slots : worker[c].pc # "exited"

\* C38: over any sequence of Start and Close calls on one Manager the
\* readiness channel is closed at most once: no Start, sequential or
\* concurrent with the first, executes close(m.ready) on the closed channel.
C38_ManagerReadyClosedAtMostOnce ==
    /\ ~managerPanicked
    /\ \A t \in ManagerCallers : mcall[t].pc # "panic"

\* Service.Close has been called and every call of it has returned (the one
\* that ran the provider's Close included).
CloseReturned == CloseCalls # {} /\ CloseCalls \subseteq Returned

\* C39: the readiness latch of the Service never fires after Service.Close
\* has returned: in a state in which a Close has returned and the latch has
\* not fired, no step fires the latch and no Start returns nil.
C39_LatchNeverFiresAfterClose ==
    [][ (CloseReturned /\ ~ready) =>
            /\ ~ready'
            /\ \A t \in StartCalls :
                  (pc[t] # "done" /\ pc'[t] = "done") => ret'[t] # Nil ]_vars

====
